---- MODULE Spec2Model ----
(***************************************************************************)
(* Cogniterm_Agents: the multi-agent orchestration engine                  *)
(* (MultiAgentOrchestrator.execute_request, main.py) driven by the         *)
(* per-connection server loop (websocket_endpoint, server.py).             *)
(*                                                                         *)
(* Spec follows one connection.  The engine's position (pc) is the await   *)
(* it is suspended on; the oracle (LLM) and the executor (client) are the  *)
(* environment: every oracle answer is drawn from a small set of parsed    *)
(* answer shapes, every client message from Messages.  SpecPeers           *)
(* interleaves the runs of several connections (conn).                     *)
(*                                                                         *)
(* Python dicts are functions from key strings to value strings; a missing *)
(* key is a key outside DOMAIN.  JSON values are tokens (strings).         *)
(***************************************************************************)
EXTENDS Integers, Sequences, FiniteSets, TLC

\* ---------------------------------------------------------------- bounds
MaxSteps == 3
MaxInbox == 1
MaxRuns == 2
MaxPeerSteps == 2
MaxText == 5

\* ------------------------------------------------------------- constants
max_retries == 2

StepIds == {"a", "b"}
\* texts the client sends: a goal, or the output of an execution; the empty
\* text is a possible output and is the request the server rejects
Messages == {"", "x"}

\* ---------------------------------------------------------- dict helpers
EmptyDict == [k \in {} |-> ""]
Unbound == ("UNBOUND" :> "UNBOUND")

Has(d, k) == k \in DOMAIN d
Get(d, k, default) == IF k \in DOMAIN d THEN d[k] ELSE default
SetDefault(d, k, v) == IF k \in DOMAIN d THEN d ELSE (k :> v) @@ d
Put(d, k, v) == (k :> v) @@ d

Raise(e) == [exc |-> e, val |-> EmptyDict]
Return(v) == [exc |-> "", val |-> v]

\* Python truthiness of the JSON value tokens used for is_valid
Truthy(v) == v \in {"true", "str:false"}

VARIABLES
    pc,                  \* the await the server/engine is suspended on
    inbox,               \* messages the client sent, not yet received
    connected,           \* the client has not closed the connection
    runs,                \* execute_request invocations started so far
    plan,                \* plan["steps"]
    step_results,        \* the ledger: step id -> accepted output
    current_step_index,  \* the cursor
    code_result,         \* instruction returned by generate_code
    user_result,         \* last outcome returned by _prompt_user_execution
    is_valid, reason,    \* last verdict
    retries,             \* failed repair attempts of the current failing step
    last_code,           \* instruction handed to the next debug_code call
    fixed_code_result,   \* instruction built from the last debug_code result
    summary,             \* the report execute_request returned
    \* history variables (observations, never read by the engine)
    inflight,            \* EXECUTE_CODE_REQUESTs whose outcome is not consumed
    begun,               \* cursor values at which a step was begun, this run
    repairs,             \* debug_code calls made for the current step
    stepExec,            \* execution requests sent for the current step
    giveUp,              \* the run gave up on a step
    planAnswer,          \* kind of the planner oracle's answer, this run
    summarized,          \* generate_summary returned in this run
    crash,               \* where and why the run raised out of the engine
    received,            \* what the caller received for the run
    infoLost,            \* "some": the send of an event of this run raised;
                         \* "none": no send did; "unobserved": the outcome
                         \* of the sends of events is not considered
    events,              \* the events the engine emitted in its latest step
                         \* that emitted any, in the order of emission,
                         \* after the last event emitted before that step
    fresh,               \* for each message in inbox: it was sent while the
                         \* execution request now outstanding was outstanding
    \* several connections, each served by its own websocket_endpoint
    conn,                \* connection -> its server loop and its run
    actor,               \* the connection whose step was taken last
    \* the parsing and validation functions, applied to one text
    text,                \* the text
    out                  \* the function applied and what it returned

vars == <<pc, inbox, connected, runs, plan, step_results, current_step_index,
          code_result, user_result, is_valid, reason, retries, last_code,
          fixed_code_result, summary,
          inflight, begun, repairs, stepExec, giveUp, planAnswer, summarized,
          crash, received, infoLost, events, fresh, conn, actor, text, out>>

engineVars == <<plan, step_results, current_step_index, code_result,
                user_result, is_valid, reason, retries, last_code,
                fixed_code_result>>
histVars == <<inflight, begun, repairs, stepExec, giveUp, planAnswer,
              summarized, crash, received, infoLost, events>>
connVars == <<conn, actor>>
textVars == <<text, out>>
runVars == <<pc, inbox, connected, runs, engineVars, summary, histVars, fresh>>
\* everything but connVars
vars1 == <<runVars, textVars>>

NoCrash == [at |-> "", exc |-> ""]

\* ------------------------------------------------------- oracle answers
\* An oracle answer after LLMManager.generate_text: what json.loads makes
\* of it.  kind "prose": not JSON; "list": JSON that is not an object;
\* "dict": a JSON object d.
Prose == [kind |-> "prose", d |-> EmptyDict]
JList == [kind |-> "list", d |-> EmptyDict]
JDict(d) == [kind |-> "dict", d |-> d]

Step(id) == ("id" :> id) @@ ("description" :> "d") @@ ("validation_rule" :> "v")
StepNoId == ("description" :> "d") @@ ("validation_rule" :> "v")

\* plans of steps that have every key; ids may repeat.  Ids are
\* interchangeable, so the first step's id is fixed.
WellFormedPlans ==
    {p \in UNION {[1..n -> {Step(i) : i \in StepIds}] : n \in 0..MaxSteps} :
        p # <<>> => p[1]["id"] = "a"}

\* planner answers: kind as above; a dict answer may lack "steps"
PlannerAnswers ==
    {[kind |-> "prose", hasSteps |-> FALSE, steps |-> <<>>],
     [kind |-> "list", hasSteps |-> FALSE, steps |-> <<>>],
     [kind |-> "dict", hasSteps |-> FALSE, steps |-> <<>>],
     [kind |-> "dict", hasSteps |-> TRUE, steps |-> <<StepNoId>>]}
    \cup {[kind |-> "dict", hasSteps |-> TRUE, steps |-> p] : p \in WellFormedPlans}

Instruction(sid, code) ==
    ("step_id" :> sid) @@ ("code" :> code) @@ ("language" :> "bash")
    @@ ("reasoning" :> "why") @@ ("expected_output" :> "eo")

OtherId(id) == IF id = "a" THEN "b" ELSE "a"

CoderAnswers(id) ==
    {Prose, JList,
     JDict(Instruction(id, "c1")),
     JDict(("step_id" :> OtherId(id)) @@ ("code" :> "c1") @@ ("reasoning" :> "why")),
     JDict(("code" :> "c1") @@ ("language" :> "bash")),
     JDict(("reasoning" :> "why") @@ ("language" :> "bash"))}

Verdict(v, r) == ("is_valid" :> v) @@ ("reason" :> r)

ValidatorAnswers ==
    {Prose, JList,
     JDict(Verdict("true", "r1")),
     JDict(Verdict("false", "r1")),
     JDict(Verdict("str:false", "r1")),
     JDict(EmptyDict)}

Fix(sid, code, et) ==
    ("step_id" :> sid) @@ ("error_type" :> et) @@ ("reasoning" :> "fixwhy")
    @@ ("fixed_code" :> code) @@ ("language" :> "bash")
    @@ ("expected_output" :> "eo2")

DebuggerAnswers(id) ==
    {Prose, JList,
     JDict(Fix(id, "c2", "syntax")),
     JDict(Fix(OtherId(id), "c2", "syntax")),
     JDict(("reasoning" :> "fixwhy") @@ ("fixed_code" :> "c2")),
     JDict(("fixed_code" :> "c2") @@ ("error_type" :> "syntax")),
     JDict(("reasoning" :> "fixwhy") @@ ("error_type" :> "syntax"))}

\* summarizer answers: not JSON, JSON that is not an object, an object
\* with one key of the report, and a whole report (its lists are empty)
Report(outcome) ==
    ("original_request" :> "x") @@ ("steps_completed" :> <<>>)
    @@ ("key_results" :> "k") @@ ("final_outcome" :> outcome)
    @@ ("warnings" :> <<>>)

SummarizerAnswers ==
    {Prose, JList, JDict(("final_outcome" :> "success")),
     JDict(Report("success"))}

\* ------------------------------------------------------------ the agents
\* a planner that answers a parse failure with a default one-step plan
plan_request_default(ans) ==
    IF ans.kind = "prose"
    THEN Return([kind |-> "dict", hasSteps |-> TRUE, steps |-> <<Step("a")>>])
    ELSE Return(ans)

\* PlannerAgent.plan_request: json.loads, ValueError when it is not JSON
plan_request(ans) ==
    IF ans.kind = "prose" THEN Raise("ValueError") ELSE Return(ans)

\* execute_request lines 52-53: plan['steps'], then p['id'], p['description']
PlanListing(pj) ==
    IF pj.kind # "dict" THEN "TypeError"
    ELSE IF ~pj.hasSteps THEN "KeyError"
    ELSE IF \E i \in 1..Len(pj.steps) :
                ~Has(pj.steps[i], "id") \/ ~Has(pj.steps[i], "description")
         THEN "KeyError"
    ELSE ""

\* CoderAgent.generate_code: json.loads, ValueError when it is not JSON;
\* the parsed value is returned as it is
generate_code(step, previous_results, ans) ==
    IF ans.kind = "prose" THEN Raise("ValueError") ELSE Return(ans)

\* subscripting a parsed value v with each key of keys, in order
Subscript(v, keys) ==
    IF v.kind # "dict" THEN "TypeError"
    ELSE IF \E i \in 1..Len(keys) : ~Has(v.d, keys[i]) THEN "KeyError"
    ELSE ""

\* a validator that accepts the outcome when its oracle's answer does not
\* parse
validate_result_failOpen(step, result, ans) ==
    IF ans.kind = "dict"
    THEN [is_valid |-> Get(ans.d, "is_valid", "false"),
          reason |-> Get(ans.d, "reason", "No reason provided.")]
    ELSE [is_valid |-> "true", reason |-> "Parsing error"]

\* StepManager.validate_result: json.loads and the two .get calls are inside
\* try/except Exception, so a parse failure (JSONDecodeError) and a parsed
\* value without .get (AttributeError) both give (False, "Parsing error: ...")
validate_result(step, result, ans) ==
    IF ans.kind = "dict"
    THEN [is_valid |-> Get(ans.d, "is_valid", "false"),
          reason |-> Get(ans.d, "reason", "No reason provided.")]
    ELSE [is_valid |-> "false", reason |-> "Parsing error"]

\* DebuggerAgent.debug_code
debug_code(step, code, error_info, ans) ==
    IF ans.kind = "prose"
    THEN Return(JDict(
            ("step_id" :> Get(step, "id", "unknown"))
            @@ ("error_type" :> "logic")
            @@ ("reasoning" :> "fallback")
            @@ ("fixed_code" :> Get(code, "code", ""))
            @@ ("language" :> Get(code, "language", "python"))
            @@ ("expected_output" :> Get(code, "expected_output", ""))))
    ELSE IF ans.kind # "dict" THEN Raise("AttributeError")
    ELSE Return(JDict(
            SetDefault(
              SetDefault(
                SetDefault(ans.d, "step_id", Get(step, "id", "unknown")),
                "language", Get(code, "language", "python")),
              "expected_output", Get(code, "expected_output", ""))))

\* SummarizerAgent.generate_summary: json.loads; on JSONDecodeError the
\* fallback report of lines 124-131, else the parsed value as it is.  The
\* ledger (results) is read for the prompt only.
generate_summary(request, results, steps, ans) ==
    IF ans.kind = "prose"
    THEN JDict(("original_request" :> request)
               @@ ("steps_completed" :> steps)
               @@ ("key_results" :> "LLM summary failed")
               @@ ("total_summary" :> "Failed")
               @@ ("final_outcome" :> "Unknown")
               @@ ("warnings" :> <<>>))
    ELSE ans

\* ------------------------------------------------------------ the engine
CurrentStep == plan[current_step_index + 1]

\* ---- the event stream: _send_output(message, topic) and the execution
\* request.  An event is the kind of its topic, the step id in its topic
\* and the attempt number in its topic (0 when the topic has none); the
\* execution request is tagged with the step and the attempt whose
\* instruction it carries.
Ev(kind, step, attempt) == [kind |-> kind, step |-> step, attempt |-> attempt]

\* the step emitted es (a step that emits nothing leaves the record of
\* the latest emission as it was)
Emit(es) ==
    events' = (IF es = <<>> THEN events
               ELSE IF events = <<>> THEN es
               ELSE <<events[Len(events)]>> \o es)

\* attempt numbers that start at 0
AttemptNumber_zeroBased(r) == r

\* main.py lines 101-102, 116, 122, 140, 149: the attempt number in the
\* topics of the debug loop
AttemptNumber(r) == r + 1

\* main.py lines 52-53: one PLAN event for each step of the plan, up to the
\* first step that has no id or no description
RECURSIVE PlanEvents(_)
PlanEvents(steps) ==
    IF steps = <<>> \/ ~Has(Head(steps), "id")
       \/ ~Has(Head(steps), "description")
    THEN <<>>
    ELSE <<Ev("PLAN", Head(steps)["id"], 0)>> \o PlanEvents(Tail(steps))

\* main.py lines 59-61 and 159-163: what the head of the step loop emits
LoopHeadEvents(idx, steps) ==
    IF idx < Len(steps)
    THEN <<Ev("STEP", steps[idx + 1]["id"], 0)>>
    ELSE <<Ev("SUMMARY_START", "", 0)>>

\* The locals of one iteration of the step loop.  Each of them is assigned
\* (lines 64, 72, 79, 97, 126) before the next iteration or the summary can
\* read it, so its value is dropped when an iteration ends.  retries and
\* is_valid are not among them: they keep their value until lines 95 and
\* 79/137 assign them.
ForgetIteration ==
    /\ code_result' = Unbound
    /\ user_result' = Unbound
    /\ reason' = "unbound"
    /\ last_code' = Unbound
    /\ fixed_code_result' = Unbound

\* server.py lines 35-42: an exception leaving execute_request (or the
\* server loop) is reported as {"error": ...} and the connection is closed.
\* The frame of execute_request is gone; plan, ledger, cursor and retries
\* stay as the exception left them.
RaiseOut(at, e) ==
    /\ pc' = "closed"
    /\ crash' = [at |-> at, exc |-> e]
    /\ received' = IF at = "idle" THEN received
                   ELSE IF connected THEN "error" ELSE "nothing"
    /\ ForgetIteration

\* a _send_output that lets the exception of the send out
send_output_propagate(raised) ==
    IF raised THEN "WebSocketDisconnect" ELSE ""

\* main.py lines 31-41, _send_output: the send is inside try/except
\* Exception, so no exception leaves it whether the send raised or not
send_output(raised) == ""

\* whether the send inside _send_output raises: either, when its outcome
\* is considered (it has no effect when it is not, see send_output)
SendOutcomes == IF infoLost = "unobserved" THEN {FALSE} ELSE BOOLEAN

\* the record of lost events after a step whose send raised or not
Lost(was, raised) ==
    IF was = "unobserved" THEN was ELSE IF raised THEN "some" ELSE was

\* an exception e leaving _send_output would leave execute_request
InfoFailureEnds(e) ==
    /\ RaiseOut("info", e)
    /\ UNCHANGED <<inbox, fresh, connected, runs, plan, step_results,
                   current_step_index, is_valid, retries, summary, inflight,
                   begun, repairs, stepExec, giveUp, planAnswer, summarized,
                   events, connVars, textVars>>

\* main.py line 59 (and 61): the head of the step loop for cursor idx
LoopHead(idx, steps) ==
    IF idx < Len(steps)
    THEN /\ pc' = "generating"
         /\ begun' = Append(begun, idx)
         /\ repairs' = 0
         /\ stepExec' = 0
    ELSE /\ pc' = "summarizing"
         /\ UNCHANGED <<begun, repairs, stepExec>>

\* giving up without the break: the step loop goes round again
GiveUpStep_noBreak ==
    /\ giveUp' = TRUE
    /\ LoopHead(current_step_index, plan)

\* main.py line 157: break out of the step loop
GiveUpStep ==
    /\ pc' = "summarizing"
    /\ giveUp' = TRUE
    /\ UNCHANGED <<begun, repairs, stepExec>>

\* the debug loop with an off-by-one guard
RetryLoopContinues_offByOne(r) == r <= max_retries

\* main.py line 99: the guard of the debug loop
RetryLoopContinues(r) == r < max_retries

\* a retry count that is carried over from the previous failing step
ResetRetries_carry(r) == r

\* main.py line 95: the retry count when a step first fails validation
ResetRetries(r) == 0

\* an engine that never gives up on a step: it begins the step again
GivesUp_never(r) == FALSE

\* main.py line 155: the give-up test after the debug loop
GivesUp(r) == r >= max_retries

\* main.py lines 99-103 and 155-157, entered with retries = r: either the
\* next debug attempt begins or the loop is left
DebugLoopHead(r, idx, lc, v) ==
    IF RetryLoopContinues(r)
    THEN /\ pc' = "debugging"
         /\ repairs' = repairs + 1
         /\ last_code' = lc
         /\ reason' = v.reason
         /\ UNCHANGED <<begun, stepExec, giveUp, code_result, user_result,
                        fixed_code_result>>
    ELSE IF GivesUp(r)
    THEN GiveUpStep /\ ForgetIteration
    ELSE /\ LoopHead(idx, plan)
         /\ ForgetIteration
         /\ UNCHANGED giveUp

\* main.py lines 99-103 and 155-163: what is emitted when the debug loop is
\* entered with retries = r
DebugLoopEvents(r, idx) ==
    IF RetryLoopContinues(r)
    THEN <<Ev("DEBUG_ATTEMPT", CurrentStep["id"], AttemptNumber(r))>>
    ELSE IF GivesUp(r)
    THEN <<Ev("GIVE_UP", CurrentStep["id"], 0), Ev("SUMMARY_START", "", 0)>>
    ELSE LoopHeadEvents(idx, plan)

\* the events of keys[1], keys[2], ... that were emitted before a
\* subscript with a missing key raised
RECURSIVE KeyPrefix(_, _, _)
KeyPrefix(d, keys, evs) ==
    IF keys = <<>> \/ evs = <<>> \/ ~Has(d, Head(keys)) THEN <<>>
    ELSE <<Head(evs)>> \o KeyPrefix(d, Tail(keys), Tail(evs))

\* a cursor that skips the step after a success
Advance_skip(idx) == idx + 2

\* main.py lines 86-87 / 143-144: the ledger write and the cursor advance
LedgerWrite(ledger, step, result) == Put(ledger, step["id"], result["output"])
Advance(idx) == idx + 1

\* ------------------------------------------------------------ the client
ClientSend(m) ==
    /\ pc # "closed"
    /\ connected
    /\ Len(inbox) < MaxInbox
    /\ inbox' = Append(inbox, m)
    /\ fresh' = Append(fresh, pc \in {"exec1", "exec2"})
    /\ UNCHANGED <<pc, connected, runs, engineVars, summary, histVars,
                   connVars, textVars>>

ClientDisconnect ==
    /\ pc # "closed"
    /\ connected
    /\ connected' = FALSE
    /\ UNCHANGED <<pc, inbox, fresh, runs, engineVars, summary, histVars,
                   connVars, textVars>>

\* ------------------------------------------------------------ the server
\* server.py lines 22-30 and main.py lines 46-51: a request is received and
\* execute_request is entered (a new frame: no local is bound yet)
ServerReceiveRequest ==
    /\ pc = "idle"
    /\ inbox # <<>>
    /\ Head(inbox) # ""
    /\ runs < MaxRuns
    /\ \E infoRaises \in SendOutcomes :
         /\ infoRaises => ~connected
         /\ IF send_output(infoRaises) # ""
            THEN InfoFailureEnds(send_output(infoRaises))
            ELSE /\ inbox' = Tail(inbox)
                 /\ fresh' = Tail(fresh)
                 /\ runs' = runs + 1
                 /\ pc' = "planning"
                 /\ plan' = <<>>
                 /\ step_results' = EmptyDict
                 /\ current_step_index' = 0
                 /\ code_result' = Unbound
                 /\ user_result' = Unbound
                 /\ is_valid' = "unbound"
                 /\ reason' = "unbound"
                 /\ retries' = 0
                 /\ last_code' = Unbound
                 /\ fixed_code_result' = Unbound
                 /\ summary' = Unbound
                 /\ begun' = <<>>
                 /\ repairs' = 0
                 /\ stepExec' = 0
                 /\ giveUp' = FALSE
                 /\ planAnswer' = ""
                 /\ summarized' = FALSE
                 /\ crash' = NoCrash
                 /\ received' = "none"
                 /\ events' = <<Ev("REQUEST", "", 0), Ev("GENERAL", "", 0)>>
                 /\ UNCHANGED <<connected, inflight, connVars, textVars>>
         /\ infoLost' = Lost(IF infoLost = "unobserved" THEN infoLost
                                  ELSE "none",
                                  infoRaises)

\* server.py lines 25-27
ServerEmptyRequest ==
    /\ pc = "idle"
    /\ inbox # <<>>
    /\ Head(inbox) = ""
    /\ inbox' = Tail(inbox)
    /\ fresh' = Tail(fresh)
    /\ UNCHANGED <<pc, connected, runs, engineVars, summary, histVars,
                   connVars, textVars>>

\* server.py line 22 raising WebSocketDisconnect
ServerReceiveClosed ==
    /\ pc = "idle"
    /\ inbox = <<>>
    /\ ~connected
    /\ RaiseOut("idle", "WebSocketDisconnect")
    /\ UNCHANGED <<events, infoLost, connVars, textVars, inbox, fresh, connected, runs, plan, step_results,
                   current_step_index, is_valid, retries, inflight, begun, repairs,
                   stepExec, giveUp, planAnswer, summarized, summary>>

\* main.py lines 51-61: the planner's answer arrives
PlannerReturns(ans) ==
    /\ pc = "planning"
    /\ \E infoRaises \in SendOutcomes :
         /\ infoRaises => ~connected
         /\ IF send_output(infoRaises) # ""
            THEN InfoFailureEnds(send_output(infoRaises))
            ELSE /\ planAnswer' = ans.kind
                 /\ LET r == plan_request(ans)
                        l == PlanListing(r.val)
                    IN  IF r.exc # ""
                        THEN /\ RaiseOut("planning", r.exc)
                             /\ UNCHANGED <<plan, step_results, current_step_index,
                                            begun, repairs, stepExec, events>>
                        ELSE IF l # ""
                        THEN /\ RaiseOut("plan_listing", l)
                             /\ Emit(IF r.val.kind = "dict" /\ r.val.hasSteps
                                     THEN PlanEvents(r.val.steps) ELSE <<>>)
                             /\ UNCHANGED <<plan, step_results, current_step_index,
                                            begun, repairs, stepExec>>
                        ELSE /\ plan' = r.val.steps
                             /\ Emit(PlanEvents(r.val.steps)
                                     \o <<Ev("EXEC_INIT", "", 0)>>
                                     \o LoopHeadEvents(0, r.val.steps))
                             /\ step_results' = EmptyDict
                             /\ current_step_index' = 0
                             /\ LoopHead(0, r.val.steps)
                             /\ UNCHANGED <<crash, received, code_result, user_result,
                                            reason, last_code, fixed_code_result>>
                 /\ UNCHANGED <<connVars, textVars, inbox, fresh, connected, runs, is_valid, retries, inflight,
                                giveUp, summarized, summary>>
         /\ infoLost' = Lost(infoLost, infoRaises /\ events' # events)

\* main.py lines 64-72 and 172-176: the coder's answer arrives, the
\* instruction is shown and the execution request is sent
CoderReturns(ans, sendRaises) ==
    /\ pc = "generating"
    /\ sendRaises => ~connected
    /\ \E infoRaises \in SendOutcomes :
         /\ infoRaises => ~connected
         /\ IF send_output(infoRaises) # ""
            THEN InfoFailureEnds(send_output(infoRaises))
            ELSE /\ LET r == generate_code(CurrentStep, step_results, ans)
                        k == Subscript(ans, <<"reasoning", "code">>)
                        ready == <<Ev("REASONING", CurrentStep["id"], 0),
                                   Ev("CODE", CurrentStep["id"], 0)>>
                    IN  IF r.exc # ""
                        THEN /\ RaiseOut("generating", r.exc)
                             /\ UNCHANGED <<inflight, stepExec, events>>
                        ELSE IF k # ""
                        THEN /\ RaiseOut("instruction", k)
                             /\ Emit(KeyPrefix(ans.d, <<"reasoning", "code">>, ready))
                             /\ UNCHANGED <<inflight, stepExec>>
                        ELSE IF sendRaises
                        THEN /\ RaiseOut("exec_send", "WebSocketDisconnect")
                             /\ Emit(ready)
                             /\ UNCHANGED <<inflight, stepExec>>
                        ELSE /\ code_result' = r.val.d
                             /\ Emit(ready \o <<Ev("EXECUTE_CODE_REQUEST",
                                                   CurrentStep["id"], 0)>>)
                             /\ inflight' = inflight + 1
                             /\ stepExec' = stepExec + 1
                             /\ pc' = "exec1"
                             /\ UNCHANGED <<crash, received, user_result, reason,
                                            last_code, fixed_code_result>>
                 /\ UNCHANGED <<connVars, textVars, inbox, fresh, connected, runs, plan, step_results,
                                current_step_index, is_valid, retries, begun, repairs,
                                giveUp, planAnswer, summarized, summary>>
         /\ infoLost' = Lost(infoLost, infoRaises /\ events' # events)

\* an engine that takes the outcome of a repaired instruction as it is and
\* goes on to the summary
AfterOutcome_skip(p) == IF p = "exec1" THEN "validate1" ELSE "summarizing"

\* main.py lines 72-79 and 134-137: the outcome _prompt_user_execution
\* returned is handed to validate_result in the next statement
AfterOutcome(p) == IF p = "exec1" THEN "validate1" ELSE "validate2"

\* an engine that keeps the first outcome of a step through its repair
\* attempts
Outcome_first(old, response) ==
    IF old = Unbound
    THEN ("output" :> response) @@ ("success" :> "True")
    ELSE old

\* main.py lines 180-185 with 72 and 134: user_result is bound to a new
\* dictionary made of the message received, whatever it held before
Outcome(old, response) == ("output" :> response) @@ ("success" :> "True")

\* an await that gives up waiting: it returns an empty outcome and leaves
\* the request outstanding
ExecutorOutcome_noWait ==
    /\ pc \in {"exec1", "exec2"}
    /\ user_result' = ("output" :> "") @@ ("success" :> "True")
    /\ pc' = AfterOutcome(pc)
    /\ UNCHANGED <<connVars, textVars, inbox, fresh, inflight, connected, runs, plan, step_results,
                   current_step_index, code_result, is_valid, reason, retries,
                   last_code, fixed_code_result, begun, repairs, stepExec,
                   giveUp, planAnswer, summarized, summary, crash, received,
                   events, infoLost>>

\* main.py lines 180-185: the next message on the connection is the outcome
ExecutorOutcome ==
    /\ pc \in {"exec1", "exec2"}
    /\ inbox # <<>>
    /\ user_result' = Outcome(user_result, Head(inbox))
    /\ inbox' = Tail(inbox)
    /\ fresh' = [i \in 1..(Len(inbox) - 1) |-> FALSE]
    /\ inflight' = inflight - 1
    /\ pc' = AfterOutcome(pc)
    /\ UNCHANGED <<connected, runs, plan, step_results, current_step_index,
                   code_result, is_valid, reason, retries, last_code,
                   fixed_code_result, begun, repairs, stepExec, giveUp,
                   planAnswer, summarized, summary, crash, received, events,
                   infoLost, connVars, textVars>>

\* main.py line 180 raising WebSocketDisconnect
ExecutorDisconnected ==
    /\ pc \in {"exec1", "exec2"}
    /\ inbox = <<>>
    /\ ~connected
    /\ RaiseOut(pc, "WebSocketDisconnect")
    /\ UNCHANGED <<events, infoLost, connVars, textVars, inbox, fresh, connected, runs, plan, step_results,
                   current_step_index, is_valid, retries, inflight, begun, repairs,
                   stepExec, giveUp, planAnswer, summarized, summary>>

\* a debug loop that hands the first instruction to every repair attempt
LastCodeAfterFailure_stale(code, fixed) == code

\* main.py line 152: the instruction of the attempt that has just failed
\* becomes last_code
LastCodeAfterFailure(code, fixed) == fixed

\* main.py lines 79-103 (first validation) and 137-157 (validation of a
\* repair attempt): the validator's answer arrives
ValidatorReturns(ans) ==
    /\ pc \in {"validate1", "validate2"}
    /\ \E infoRaises \in SendOutcomes :
         /\ infoRaises => ~connected
         /\ IF send_output(infoRaises) # ""
            THEN InfoFailureEnds(send_output(infoRaises))
            ELSE /\ LET v == validate_result(CurrentStep, user_result, ans)
                    IN  /\ is_valid' = v.is_valid
                        /\ IF Truthy(v.is_valid)
                           THEN /\ step_results' =
                                     LedgerWrite(step_results, CurrentStep, user_result)
                                /\ current_step_index' = Advance(current_step_index)
                                /\ ForgetIteration
                                /\ UNCHANGED retries
                                /\ IF pc = "validate2" /\ GivesUp(retries)
                                   THEN /\ GiveUpStep
                                        /\ Emit(<<Ev("SUCCESS_AFTER_DEBUG", CurrentStep["id"],
                                                     AttemptNumber(retries)),
                                                  Ev("GIVE_UP", CurrentStep["id"], 0),
                                                  Ev("SUMMARY_START", "", 0)>>)
                                   ELSE /\ LoopHead(Advance(current_step_index), plan)
                                        /\ Emit(<<IF pc = "validate1"
                                                  THEN Ev("SUCCESS", CurrentStep["id"], 0)
                                                  ELSE Ev("SUCCESS_AFTER_DEBUG",
                                                          CurrentStep["id"],
                                                          AttemptNumber(retries))>>
                                                \o LoopHeadEvents(
                                                       Advance(current_step_index), plan))
                                        /\ UNCHANGED giveUp
                           ELSE IF pc = "validate1"
                           THEN /\ retries' = ResetRetries(retries)
                                /\ Emit(<<Ev("FAIL", CurrentStep["id"], 0)>>
                                        \o DebugLoopEvents(ResetRetries(retries),
                                                           current_step_index))
                                /\ DebugLoopHead(ResetRetries(retries), current_step_index,
                                                 code_result, v)
                                /\ UNCHANGED <<step_results, current_step_index>>
                           ELSE /\ retries' = retries + 1
                                /\ Emit(<<Ev("FAIL_ATTEMPT", CurrentStep["id"],
                                             AttemptNumber(retries))>>
                                        \o DebugLoopEvents(retries + 1, current_step_index))
                                /\ DebugLoopHead(retries + 1, current_step_index,
                                                 LastCodeAfterFailure(code_result,
                                                                      fixed_code_result),
                                                 v)
                                /\ UNCHANGED <<step_results, current_step_index>>
                 /\ UNCHANGED <<connVars, textVars, inbox, fresh, connected, runs, plan, inflight, planAnswer,
                                summarized, summary, crash, received>>
         /\ infoLost' = Lost(infoLost, infoRaises /\ events' # events)

\* main.py lines 105-109
ErrorInfo == ("error_message" :> reason)
             @@ ("user_output" :> Get(user_result, "output", ""))
             @@ ("success" :> Get(user_result, "success", "False"))

\* main.py lines 126-132
FixedCodeResult(step, fix) ==
    ("step_id" :> step["id"]) @@ ("code" :> fix["fixed_code"])
    @@ ("language" :> fix["language"])
    @@ ("reasoning" :> Get(fix, "reasoning", ""))
    @@ ("expected_output" :> Get(fix, "expected_output", ""))

\* main.py lines 111-134 and 172-176: the debugger's answer arrives, the
\* fix is shown and the execution request for it is sent
DebuggerReturns(ans, sendRaises) ==
    /\ pc = "debugging"
    /\ sendRaises => ~connected
    /\ \E infoRaises \in SendOutcomes :
         /\ infoRaises => ~connected
         /\ IF send_output(infoRaises) # ""
            THEN InfoFailureEnds(send_output(infoRaises))
            ELSE /\ LET r == debug_code(CurrentStep, last_code, ErrorInfo, ans)
                        k == Subscript(r.val, <<"reasoning", "fixed_code", "language">>)
                        ready == <<Ev("DEBUG_REASONING", CurrentStep["id"],
                                      AttemptNumber(retries)),
                                   Ev("DEBUG_CODE", CurrentStep["id"],
                                      AttemptNumber(retries))>>
                    IN  IF r.exc # ""
                        THEN /\ RaiseOut("debugging", r.exc)
                             /\ UNCHANGED <<inflight, stepExec, events>>
                        ELSE IF k # ""
                        THEN /\ RaiseOut("fix", k)
                             /\ Emit(KeyPrefix(r.val.d, <<"reasoning", "fixed_code">>,
                                               ready))
                             /\ UNCHANGED <<inflight, stepExec>>
                        ELSE IF sendRaises
                        THEN /\ RaiseOut("exec_send", "WebSocketDisconnect")
                             /\ Emit(ready)
                             /\ UNCHANGED <<inflight, stepExec>>
                        ELSE /\ fixed_code_result' = FixedCodeResult(CurrentStep, r.val.d)
                             /\ Emit(ready \o <<Ev("EXECUTE_CODE_REQUEST",
                                                   CurrentStep["id"],
                                                   AttemptNumber(retries))>>)
                             /\ inflight' = inflight + 1
                             /\ stepExec' = stepExec + 1
                             /\ pc' = "exec2"
                             /\ UNCHANGED <<crash, received, code_result, user_result,
                                            reason, last_code>>
                 /\ UNCHANGED <<connVars, textVars, inbox, fresh, connected, runs, plan, step_results,
                                current_step_index, is_valid, retries, begun, repairs,
                                giveUp, planAnswer, summarized, summary>>
         /\ infoLost' = Lost(infoLost, infoRaises /\ events' # events)

\* main.py lines 165-168 and server.py line 33: the summarizer's answer
\* arrives, execute_request returns and the report is sent
SummarizerReturns(ans, sendRaises) ==
    /\ pc = "summarizing"
    /\ sendRaises => ~connected
    /\ summary' = generate_summary("x", step_results, plan, ans)
    /\ summarized' = TRUE
    /\ IF sendRaises
       THEN RaiseOut("send_report", "WebSocketDisconnect")
       ELSE /\ pc' = "idle"
            /\ received' = IF connected THEN "report" ELSE "nothing"
            /\ UNCHANGED <<crash, code_result, user_result, reason,
                           last_code, fixed_code_result>>
    /\ UNCHANGED <<connVars, textVars, inbox, fresh, connected, runs, plan, step_results,
                   current_step_index, is_valid, retries, inflight, begun,
                   repairs, stepExec, giveUp, planAnswer, events, infoLost>>

\* the coder's and the debugger's answers may echo the current step's id
GenerateStep ==
    /\ pc = "generating"
    /\ \E ans \in CoderAnswers(CurrentStep["id"]), b \in BOOLEAN :
           CoderReturns(ans, b)

DebugStep ==
    /\ pc = "debugging"
    /\ \E ans \in DebuggerAnswers(CurrentStep["id"]), b \in BOOLEAN :
           DebuggerReturns(ans, b)

\* ------------------------------------------------------- oracle texts
\* A text is a sequence of tokens: "fence", the marker of three backticks, the word
\* "json", a space " ", a newline "nl", the braces "{" and "}" of a JSON
\* object (its keys and scalar values are elided), and "p", any other
\* piece of prose.
WS == {" ", "nl"}

RECURSIVE LStrip(_)
LStrip(t) == IF t # <<>> /\ Head(t) \in WS THEN LStrip(Tail(t)) ELSE t

RECURSIVE RStrip(_)
RStrip(t) ==
    IF t # <<>> /\ t[Len(t)] \in WS THEN RStrip(SubSeq(t, 1, Len(t) - 1))
    ELSE t

\* str.strip()
Strip(t) == RStrip(LStrip(t))

NoWs(t) == SelectSeq(t, LAMBDA c : c \notin WS)

\* opening minus closing braces among the first k tokens
Depth(t, k) ==
    Cardinality({i \in 1..k : t[i] = "{"})
    - Cardinality({i \in 1..k : t[i] = "}"})

\* one JSON object: braces only, balanced, closed by the last one
IsObject(u) ==
    /\ u # <<>>
    /\ \A i \in 1..Len(u) : u[i] \in {"{", "}"}
    /\ \A k \in 1..(Len(u) - 1) : Depth(u, k) > 0
    /\ Depth(u, Len(u)) = 0

\* json.loads: whitespace around and between the tokens is insignificant;
\* the value is the text without it
json_loads(t) ==
    IF IsObject(NoWs(t)) THEN [ok |-> TRUE, val |-> NoWs(t)]
    ELSE [ok |-> FALSE, val |-> <<>>]

\* the first position from i on that holds no whitespace
RECURSIVE WsEnd(_, _)
WsEnd(t, i) == IF i <= Len(t) /\ t[i] \in WS THEN WsEnd(t, i + 1) ELSE i

\* ^ and $ under re.MULTILINE
LineStart(t, i) == i = 1 \/ t[i - 1] = "nl"
LineEnd(t, j) == j = Len(t) \/ t[j + 1] = "nl"

\* the pattern ^FENCEjson\s* (FENCE: three backticks) matches at i
OpenAt(t, i) ==
    /\ LineStart(t, i)
    /\ i + 1 <= Len(t)
    /\ t[i] = "fence"
    /\ t[i + 1] = "json"

\* the pattern \s*FENCE$ matches at i
CloseAt(t, i) ==
    LET k == WsEnd(t, i)
    IN  k <= Len(t) /\ t[k] = "fence" /\ LineEnd(t, k)

\* re.sub of the two patterns by the empty string under re.MULTILINE,
\* from position i on
RECURSIVE SubFrom(_, _)
SubFrom(t, i) ==
    IF i > Len(t) THEN <<>>
    ELSE IF OpenAt(t, i) THEN SubFrom(t, WsEnd(t, i + 2))
    ELSE IF CloseAt(t, i) THEN SubFrom(t, WsEnd(t, i) + 1)
    ELSE <<t[i]>> \o SubFrom(t, i + 1)

StripFences(t) == SubFrom(t, 1)

\* LLMManager.generate_text, applied to the oracle's response
generate_text(response) == Strip(StripFences(response))

Opens(t) == {i \in 1..Len(t) : t[i] = "{"}
Closes(t) == {i \in 1..Len(t) : t[i] = "}"}
Min(S) == CHOOSE x \in S : \A y \in S : x <= y
Max(S) == CHOOSE x \in S : \A y \in S : x >= y

\* re.search of \{.*\} under re.DOTALL, group(0), when there is a match:
\* .* is greedy, the match runs from the first "{" to the last "}"
BraceBlock(t) == SubSeq(t, Min(Opens(t)), Max(Closes(t)))

\* DebuggerAgent._extract_json
extract_json(raw) ==
    LET t == Strip(StripFences(Strip(raw)))
    IN  IF json_loads(t).ok THEN t
        ELSE IF Opens(t) # {} /\ Closes(t) # {} /\ Min(Opens(t)) < Max(Closes(t))
        THEN Strip(BraceBlock(t))
        ELSE t

\* DebuggerAgent.debug_code lines 73-77: what the answer is parsed to, or
\* the fallback
DebuggerParse(response) == json_loads(extract_json(generate_text(response)))

\* the texts an oracle may answer with
Tokens == {"{", "}", "p", " "}
BraceTexts == UNION {[1..n -> Tokens] : n \in 0..MaxText}

NoOut == [fn |-> "", ok |-> FALSE, val |-> <<>>]

\* CoderAgent.generate_code lines 83-97: generate_text, the fence patterns
\* once more, strip, json.loads (not ok: ValueError)
CoderParse(response) ==
    json_loads(Strip(StripFences(generate_text(response))))

\* StepManager.validate_result lines 63-67: generate_text, json.loads
ValidatorParse(response) == json_loads(generate_text(response))

\* well-formed answers, and each of them wrapped: whitespace, an opening
\* fence with or without the word json, whitespace, the answer,
\* whitespace, a closing fence, whitespace
Objects == {<<"{", "}">>, <<"{", "{", "}", "}">>}
Spaces == {<<>>, <<" ">>, <<"nl">>}
OpenFences == {<<>>, <<"fence", "json">>, <<"fence">>}
CloseFences == {<<>>, <<"fence">>}
Wrappings(x) ==
    {a \o f \o b \o x \o c \o g \o d :
        a \in Spaces, f \in OpenFences, b \in Spaces, c \in Spaces,
        g \in CloseFences, d \in Spaces}
FencedTexts == UNION {Wrappings(x) : x \in Objects}

\* ---- utils/validation.py: here a text is a sequence of characters
DigitChars == {"0", "1", "2", "3", "4", "5", "6", "7", "8", "9"}
DigitVal(c) ==
    CASE c = "0" -> 0 [] c = "1" -> 1 [] c = "2" -> 2 [] c = "3" -> 3
      [] c = "4" -> 4 [] c = "5" -> 5 [] c = "6" -> 6 [] c = "7" -> 7
      [] c = "8" -> 8 [] c = "9" -> 9

\* str.split(sep): the fields between the separators
RECURSIVE Split(_, _)
Split(t, sep) ==
    LET S == {i \in 1..Len(t) : t[i] = sep}
    IN  IF S = {} THEN <<t>>
        ELSE <<SubSeq(t, 1, Min(S) - 1)>>
             \o Split(SubSeq(t, Min(S) + 1, Len(t)), sep)

\* \d{lo,hi}
IsDigits(f, lo, hi) ==
    /\ Len(f) \in lo..hi
    /\ \A i \in 1..Len(f) : f[i] \in DigitChars

\* int(f) of a text of digits, whitespace around them ignored
RECURSIVE DigitsValue(_)
DigitsValue(f) ==
    IF f = <<>> THEN 0
    ELSE 10 * DigitsValue(SubSeq(f, 1, Len(f) - 1)) + DigitVal(f[Len(f)])
IntOf(f) == DigitsValue(Strip(f))

\* (\d{1,3}\.){3}\d{1,3} matches the whole of u
IpPattern(u) ==
    LET f == Split(u, ".")
    IN  Len(f) = 4 /\ \A i \in 1..4 : IsDigits(f[i], 1, 3)

\* (\d{1,3}\.){3}\d{1,3}/\d{1,2} matches the whole of u
CidrPattern(u) ==
    LET f == Split(u, "/")
    IN  Len(f) = 2 /\ IpPattern(f[1]) /\ IsDigits(f[2], 1, 2)

\* re.match of ^...$ without re.MULTILINE: $ matches at the end of the
\* text and also just before a newline that ends the text; k is the length
\* of the part the pattern proper has to match
AtEnd(t, k) ==
    \/ k = Len(t)
    \/ k = Len(t) - 1 /\ t[Len(t)] = "nl"

\* validate_ip_address
validate_ip_address(ip) ==
    /\ \E k \in 0..Len(ip) : AtEnd(ip, k) /\ IpPattern(SubSeq(ip, 1, k))
    /\ LET octets == Split(ip, ".")
       IN  \A i \in 1..Len(octets) :
              ~(IntOf(octets[i]) < 0 \/ IntOf(octets[i]) > 255)

\* validate_cidr_range
validate_cidr_range(cidr) ==
    /\ \E k \in 0..Len(cidr) : AtEnd(cidr, k) /\ CidrPattern(SubSeq(cidr, 1, k))
    /\ validate_ip_address(Split(cidr, "/")[1])
    /\ LET subnet_part == IntOf(Split(cidr, "/")[2])
       IN  ~(subnet_part < 0 \/ subnet_part > 32)

\* the texts the validators are applied to: three or four groups joined
\* by dots, then a tail
Groups == {<<"0">>, <<"2", "5", "5">>, <<"2", "5", "6">>, <<"x">>}
Tails == {<<>>, <<"nl">>, <<"x">>, <<"/", "8">>, <<"/", "3", "2">>,
          <<"/", "3", "3">>, <<"/", "8", "nl">>, <<"/">>}
IpTexts ==
    {a \o <<".">> \o b \o <<".">> \o c \o e \o t :
        a \in Groups, b \in Groups, c \in Groups,
        e \in {<<>>} \cup {<<".">> \o d : d \in Groups \cup {<<>>}},
        t \in Tails}

\* debug_code parses the oracle's answer
DebuggerParses ==
    /\ out = NoOut
    /\ out' = [fn |-> "debug_code"] @@ DebuggerParse(text)
    /\ UNCHANGED <<text, runVars, connVars>>

\* generate_code parses the oracle's answer
CoderParses ==
    /\ out = NoOut
    /\ out' = [fn |-> "generate_code"] @@ CoderParse(text)
    /\ UNCHANGED <<text, runVars, connVars>>

\* validate_result parses the oracle's answer
ValidatorParses ==
    /\ out = NoOut
    /\ out' = [fn |-> "validate_result"] @@ ValidatorParse(text)
    /\ UNCHANGED <<text, runVars, connVars>>

ValidatesIp ==
    /\ out = NoOut
    /\ out' = [fn |-> "validate_ip_address", ok |-> validate_ip_address(text),
               val |-> <<>>]
    /\ UNCHANGED <<text, runVars, connVars>>

ValidatesCidr ==
    /\ out = NoOut
    /\ out' = [fn |-> "validate_cidr_range", ok |-> validate_cidr_range(text),
               val |-> <<>>]
    /\ UNCHANGED <<text, runVars, connVars>>

\* ------------------------------------------------- several connections
\* websocket_endpoint runs once per connection (server.py lines 10-17: its
\* own LLMManager and MultiAgentOrchestrator), and the plan, the ledger, the
\* cursor and the retry count are locals of that connection's call of
\* execute_request (main.py lines 51-57 and 95).  Here the run of every
\* connection is followed through its suspension points only: the oracle
\* answers are well-formed, the client stays connected, and what an answer
\* or an outcome says matters only through the verdict.
Connections == {1, 2}

IdleConn ==
    [pc |-> "idle", queue |-> 0, active |-> 0, plan |-> <<>>,
     step_results |-> EmptyDict, current_step_index |-> 0, retries |-> 0]

PeerPlans == {p \in WellFormedPlans : Len(p) <= MaxPeerSteps}

\* one activation record for all connections
RunStateOf_shared(c) == 1

\* the activation of execute_request whose locals connection c reads and
\* writes: the one of its own call
RunStateOf(c) == c

RunState(r) == <<r.plan, r.step_results, r.current_step_index, r.retries>>

\* the run of connection c moves to position p with the locals given
PeerUpdate(c, p, steps, ledger, idx, r) ==
    /\ conn' = [conn EXCEPT ![RunStateOf(c)].plan = steps,
                            ![RunStateOf(c)].step_results = ledger,
                            ![RunStateOf(c)].current_step_index = idx,
                            ![RunStateOf(c)].retries = r,
                            ![c].pc = p]
    /\ actor' = c

\* the client of connection c sends a message
PeerSend(c) ==
    /\ conn[c].queue < MaxInbox
    /\ conn' = [conn EXCEPT ![c].queue = @ + 1]
    /\ actor' = c
    /\ UNCHANGED vars1

\* server.py lines 22-30: a request is received, execute_request is entered
PeerReceiveRequest(c) ==
    /\ conn[c].pc = "idle"
    /\ conn[c].queue > 0
    /\ conn' = [conn EXCEPT ![c].queue = @ - 1, ![c].active = @ + 1,
                            ![c].pc = "planning"]
    /\ actor' = c
    /\ UNCHANGED vars1

\* main.py lines 51-72: the plan arrives; the first step's instruction is
\* generated and its execution requested
PeerPlanned(c, p) ==
    /\ conn[c].pc = "planning"
    /\ PeerUpdate(c, IF 0 < Len(p) THEN "exec1" ELSE "summarizing",
                  p, EmptyDict, 0, conn[RunStateOf(c)].retries)
    /\ UNCHANGED vars1

\* main.py lines 180-185: the next message of the connection is the outcome
PeerOutcome(c) ==
    /\ conn[c].pc \in {"exec1", "exec2"}
    /\ conn[c].queue > 0
    /\ conn' = [conn EXCEPT ![c].queue = @ - 1,
                            ![c].pc = IF @ = "exec1" THEN "validate1"
                                                     ELSE "validate2"]
    /\ actor' = c
    /\ UNCHANGED vars1

\* main.py lines 79-157: the verdict arrives; the step is entered in the
\* ledger and the next one requested, or a repair is requested, or the run
\* gives up
PeerVerdict(c, ok) ==
    /\ conn[c].pc \in {"validate1", "validate2"}
    /\ LET run == conn[RunStateOf(c)]
           idx == run.current_step_index
           r == IF conn[c].pc = "validate1" THEN ResetRetries(run.retries)
                ELSE run.retries + 1
       IN  /\ idx < Len(run.plan)
           /\ IF ok
              THEN PeerUpdate(c, IF Advance(idx) < Len(run.plan)
                                 THEN "exec1" ELSE "summarizing",
                              run.plan,
                              LedgerWrite(run.step_results, run.plan[idx + 1],
                                          ("output" :> "x")),
                              Advance(idx), run.retries)
              ELSE PeerUpdate(c, IF RetryLoopContinues(r)
                                 THEN "exec2" ELSE "summarizing",
                              run.plan, run.step_results, idx, r)
    /\ UNCHANGED vars1

\* main.py lines 165-168 and server.py line 33: the summary arrives,
\* execute_request returns (its locals are gone) and the report is sent
PeerSummarized(c) ==
    /\ conn[c].pc = "summarizing"
    /\ conn' = [conn EXCEPT ![c].active = @ - 1, ![c].pc = "idle",
                            ![RunStateOf(c)].plan = <<>>,
                            ![RunStateOf(c)].step_results = EmptyDict,
                            ![RunStateOf(c)].current_step_index = 0,
                            ![RunStateOf(c)].retries = 0]
    /\ actor' = c
    /\ UNCHANGED vars1

NextPeers ==
    \E c \in Connections :
        \/ PeerSend(c)
        \/ PeerReceiveRequest(c)
        \/ \E p \in PeerPlans : PeerPlanned(c, p)
        \/ PeerOutcome(c)
        \/ \E ok \in BOOLEAN : PeerVerdict(c, ok)
        \/ PeerSummarized(c)

\* server.py lines 11-22: a connection accepted, no request received yet
InitRun ==
    /\ pc = "idle"
    /\ inbox = <<>>
    /\ fresh = <<>>
    /\ connected = TRUE
    /\ runs = 0
    /\ plan = <<>>
    /\ step_results = EmptyDict
    /\ current_step_index = 0
    /\ code_result = Unbound
    /\ user_result = Unbound
    /\ is_valid = "unbound"
    /\ reason = "unbound"
    /\ retries = 0
    /\ last_code = Unbound
    /\ fixed_code_result = Unbound
    /\ summary = Unbound
    /\ inflight = 0
    /\ begun = <<>>
    /\ repairs = 0
    /\ stepExec = 0
    /\ giveUp = FALSE
    /\ planAnswer = ""
    /\ events = <<>>
    /\ summarized = FALSE
    /\ crash = NoCrash
    /\ received = "none"
    /\ conn = [c \in Connections |-> IdleConn]
    /\ actor = 0

Init ==
    /\ InitRun
    /\ infoLost = "unobserved"
    /\ text = <<>>
    /\ out = NoOut

Next ==
    \/ \E m \in Messages : ClientSend(m)
    \/ ClientDisconnect
    \/ ServerReceiveRequest
    \/ ServerEmptyRequest
    \/ ServerReceiveClosed
    \/ \E ans \in PlannerAnswers : PlannerReturns(ans)
    \/ GenerateStep
    \/ ExecutorOutcome
    \/ ExecutorDisconnected
    \/ \E ans \in ValidatorAnswers : ValidatorReturns(ans)
    \/ DebugStep
    \/ \E ans \in SummarizerAnswers, b \in BOOLEAN : SummarizerReturns(ans, b)

Spec == Init /\ [][Next]_vars

\* the runs of several connections, interleaved
SpecPeers == Init /\ [][NextPeers]_vars

\* the parsing and validation functions, each applied to a text
Texts == BraceTexts \cup FencedTexts \cup IpTexts

InitText ==
    /\ InitRun
    /\ infoLost = "unobserved"
    /\ text \in Texts
    /\ out = NoOut

NextText ==
    \/ DebuggerParses
    \/ CoderParses
    \/ ValidatorParses
    \/ ValidatesIp
    \/ ValidatesCidr

SpecText == InitText /\ [][NextText]_vars

\* ---- a connection whose oracle answers every request with a well-formed
\* answer and whose executor answers every execution request
WellFormedPlanAnswers ==
    {[kind |-> "dict", hasSteps |-> TRUE, steps |-> p] : p \in WellFormedPlans}
WellFormedInstructions(id) == {JDict(Instruction(id, "c1"))}
WellFormedVerdicts ==
    {JDict(Verdict("true", "r1")), JDict(Verdict("false", "r1"))}
WellFormedFixes(id) == {JDict(Fix(id, "c2", "syntax"))}
WellFormedReports == {JDict(Report("success"))}

\* the executor sends its answer to the execution request outstanding
ExecutorAnswers ==
    /\ pc \in {"exec1", "exec2"}
    /\ inbox = <<>>
    /\ \E m \in Messages : ClientSend(m)

\* the steps of a run: each oracle call returns, each await of an outcome
\* returns once a message is there
RunStep ==
    \/ \E ans \in WellFormedPlanAnswers : PlannerReturns(ans)
    \/ /\ pc = "generating"
       /\ \E ans \in WellFormedInstructions(CurrentStep["id"]) :
              CoderReturns(ans, FALSE)
    \/ ExecutorOutcome
    \/ \E ans \in WellFormedVerdicts : ValidatorReturns(ans)
    \/ /\ pc = "debugging"
       /\ \E ans \in WellFormedFixes(CurrentStep["id"]) :
              DebuggerReturns(ans, FALSE)
    \/ \E ans \in WellFormedReports : SummarizerReturns(ans, FALSE)

NextLive ==
    \/ \E m \in Messages : ClientSend(m)
    \/ ServerReceiveRequest
    \/ ServerEmptyRequest
    \/ RunStep

\* asyncio resumes execute_request whenever what it awaits is there: the
\* oracle's answer (asyncio.to_thread) or the executor's message
SpecLive ==
    Init /\ [][NextLive]_vars /\ WF_vars(RunStep) /\ WF_vars(ExecutorAnswers)

\* ---- a connection that may be lost at any time, with an oracle that
\* answers well: the outcome of every send is considered
InitLossy ==
    /\ InitRun
    /\ infoLost = "none"
    /\ text = <<>>
    /\ out = NoOut

NextLossy ==
    \/ \E m \in Messages : ClientSend(m)
    \/ ClientDisconnect
    \/ ServerReceiveRequest
    \/ ServerEmptyRequest
    \/ ServerReceiveClosed
    \/ \E ans \in WellFormedPlanAnswers : PlannerReturns(ans)
    \/ /\ pc = "generating"
       /\ \E ans \in WellFormedInstructions(CurrentStep["id"]), b \in BOOLEAN :
              CoderReturns(ans, b)
    \/ ExecutorOutcome
    \/ ExecutorDisconnected
    \/ \E ans \in WellFormedVerdicts : ValidatorReturns(ans)
    \/ /\ pc = "debugging"
       /\ \E ans \in WellFormedFixes(CurrentStep["id"]), b \in BOOLEAN :
              DebuggerReturns(ans, b)
    \/ \E ans \in WellFormedReports, b \in BOOLEAN : SummarizerReturns(ans, b)

SpecLossy == InitLossy /\ [][NextLossy]_vars

\* ================================================================ claims
Running == pc \in {"planning", "generating", "exec1", "validate1",
                   "debugging", "exec2", "validate2", "summarizing"}
RunOver == runs > 0 /\ pc \in {"idle", "closed"} /\ crash.at # "idle"
HasEntry(i) == Has(step_results, plan[i]["id"])

\* C1: a step is never given more than 2 repair attempts; the run gives up
\* on a step only after the initial attempt and exactly 2 repair attempts
\* (each a debug_code call, an execution request and a validation) were all
\* judged invalid; and the second failed repair is followed by giving up.
C1_RetryBound ==
    /\ [](/\ repairs <= 2
          /\ giveUp => (repairs = 2 /\ stepExec = 3 /\ retries = 2
                        /\ ~Truthy(is_valid)))
    /\ [][(pc = "validate2" /\ repairs = 2 /\ retries' = retries + 1)
            => (giveUp' /\ pc' = "summarizing")]_vars

C1_Witness == giveUp /\ pc = "summarizing" /\ repairs = 2 /\ stepExec = 3

\* C2: at most one execution request is outstanding; a request is sent only
\* when the outcome of the previous one has been consumed.
C2_OneInFlight ==
    /\ inflight \in {0, 1}
    /\ inflight = 1 => pc \in {"exec1", "exec2", "closed"}

C2_Witness == pc = "exec2" /\ inflight = 1 /\ retries = 1 /\ stepExec = 3

\* C3: every run ends with a report delivered to the caller, never with an
\* error in its place.
C3_AlwaysReport ==
    /\ received # "error"
    /\ (RunOver /\ connected) => received = "report"

\* C4: steps are begun in index order 0, 1, 2, ... and the ledger never has
\* an entry for step i without an entry for step i-1.
C4_StepOrder ==
    /\ \A k \in 1..Len(begun) : begun[k] = k - 1
    /\ \A i \in 2..Len(plan) : HasEntry(i) => HasEntry(i - 1)

\* C5: at every suspension point of a run the ledger has an entry for step
\* i exactly when the cursor is beyond i.
C5_LedgerIffCursor ==
    (Running /\ pc # "planning") =>
        \A i \in 1..Len(plan) : HasEntry(i) <=> current_step_index > i - 1

\* C6: within a run the cursor changes only by +1, and only in the step
\* that receives a valid verdict for the step at the cursor.
C6_CursorAdvance ==
    [][(pc # "idle" /\ current_step_index' # current_step_index)
         => /\ current_step_index' = current_step_index + 1
            /\ pc \in {"validate1", "validate2"}
            /\ Truthy(is_valid')
            /\ plan' = plan]_vars

C6_Witness ==
    /\ pc = "generating" /\ current_step_index = 2 /\ retries = 1
    /\ Truthy(is_valid)

\* C7: within a run a ledger entry, once written, is never overwritten or
\* removed.
C7_AppendOnly ==
    [][pc # "idle" =>
         \A k \in DOMAIN step_results :
            k \in DOMAIN step_results' /\ step_results'[k] = step_results[k]]_vars

\* C8: when the connection closes while the engine awaits an outcome, a
\* summary is still produced.
C8_DisconnectSummary ==
    (crash.exc = "WebSocketDisconnect" /\ crash.at \in {"exec1", "exec2"})
        => summarized

\* C9: after the run gave up on a step it goes directly to summarization;
\* no later step is begun, nothing more is requested or written, and the
\* ledger holds exactly the entries of the steps before the aborted one.
C9_AbortStops ==
    /\ [](giveUp =>
            /\ pc \in {"summarizing", "idle", "closed"}
            /\ Len(begun) = current_step_index + 1
            /\ begun[Len(begun)] = current_step_index
            /\ current_step_index < Len(plan)
            /\ DOMAIN step_results =
                  {plan[i]["id"] : i \in 1..current_step_index})
    /\ [][(~giveUp /\ giveUp') => pc' = "summarizing"]_vars
    /\ [][(giveUp /\ giveUp') =>
            UNCHANGED <<step_results, current_step_index, begun, stepExec,
                        repairs, inflight>>]_vars

C9_Witness ==
    /\ giveUp /\ pc = "idle" /\ received = "report"
    /\ current_step_index = 1 /\ Len(plan) = 3

\* C10: when the planner's answer is not JSON the run ends with the
\* planner's ValueError; no step is begun and no execution request sent.
C10_ProsePlan ==
    planAnswer = "prose" =>
        /\ pc = "closed"
        /\ crash = [at |-> "planning", exc |-> "ValueError"]
        /\ begun = <<>>
        /\ stepExec = 0
        /\ inflight = 0
        /\ plan = <<>>

C10_Witness == planAnswer = "prose" /\ pc = "closed" /\ runs = 2

\* C11: when the planner's answer parses but yields no usable step list
\* (the list is empty, missing, or not a list of steps), planning fails
\* and the failure is fatal to the run: no step is begun, the run never
\* reaches summarization and no report is delivered as for a run that
\* completed its steps.
C11_EmptyPlanFatal ==
    (planAnswer \in {"list", "dict"} /\ plan = <<>>) =>
        /\ pc = "closed"
        /\ crash.at \in {"planning", "plan_listing"}
        /\ begun = <<>>
        /\ ~summarized
        /\ received # "report"

\* C12: a malformed oracle answer in generate_code does not crash the run:
\* the run never ends with an exception raised by generate_code or by the
\* use of its result, so that it still reaches summarization.
C12_CoderAnswerRecovered ==
    /\ crash.at \notin {"generating", "instruction"}
    /\ (RunOver /\ begun # <<>> /\ stepExec = 0 /\ connected) => summarized

\* C13: validate_result never raises on a malformed oracle answer (not
\* JSON, or JSON that is not an object): it returns the verdict (False,
\* reason) whose reason is the parsing-error explanation, and the engine
\* goes on with the retry loop: the next repair attempt, or giving up when
\* the budget is spent.
C13_ValidatorNeverRaises ==
    /\ [](pc \in {"validate1", "validate2"} =>
            \A ans \in {Prose, JList} :
               validate_result(CurrentStep, user_result, ans)
                  = [is_valid |-> "false", reason |-> "Parsing error"])
    /\ [][(ValidatorReturns(Prose) \/ ValidatorReturns(JList)) =>
            /\ crash' = crash
            /\ is_valid' = "false"
            /\ UNCHANGED <<step_results, current_step_index>>
            /\ pc' \in {"debugging", "summarizing"}
            /\ pc' = "debugging" =>
                  (reason' = "Parsing error" /\ repairs' = repairs + 1)
            /\ pc' = "summarizing" => (giveUp' /\ retries' = max_retries)]_vars

C13_Witness ==
    /\ pc = "debugging" /\ reason = "Parsing error" /\ is_valid = "false"
    /\ repairs = 2 /\ retries = 1

\* C14: the retry count is zero whenever a step first fails validation,
\* whatever count an earlier step left behind; during the repair of a step
\* it counts the failed repair attempts of that step only, so every step
\* has the whole budget of max_retries repair attempts.
C14_RetriesPerStep ==
    /\ [][(pc = "validate1" /\ pc' = "debugging") => retries' = 0]_vars
    /\ [](pc \in {"debugging", "exec2", "validate2"} =>
            (repairs = retries + 1 /\ retries < max_retries))
    /\ []((giveUp /\ pc = "summarizing") => repairs = max_retries)

C14_Witness ==
    /\ pc = "validate2" /\ current_step_index = 2 /\ Len(begun) = 3
    /\ retries = 1 /\ repairs = 2

\* the plan steps that have an entry in the ledger
StepsInLedger == SelectSeq(plan, LAMBDA s : Has(step_results, s["id"]))
ReportKeys == {"original_request", "steps_completed", "key_results",
               "final_outcome", "warnings"}
IsFallback ==
    /\ summary.kind = "dict"
    /\ Get(summary.d, "key_results", "") = "LLM summary failed"

\* C15: generate_summary never propagates a parse error: when the
\* oracle's answer is not JSON the returned report has the keys original_request,
\* steps_completed, key_results, final_outcome and warnings and is built
\* from the ledger and the plan: the steps it reports as completed are the
\* plan steps that have a ledger entry.
C15_FallbackReport ==
    (summarized /\ IsFallback) =>
        /\ ReportKeys \subseteq DOMAIN summary.d
        /\ summary.d["original_request"] = "x"
        /\ summary.d["steps_completed"] = StepsInLedger

\* C16: every report generate_summary returns, the fallback report and the
\* report of a partially completed run included, has a final_outcome among
\* success, partial and failure and lists a warning for every plan step
\* that has no entry in the ledger.
C16_OutcomeAndWarnings ==
    summarized =>
        /\ summary.kind = "dict"
        /\ {"final_outcome", "warnings"} \subseteq DOMAIN summary.d
        /\ summary.d["final_outcome"] \in {"success", "partial", "failure"}
        /\ \A i \in 1..Len(plan) :
              ~HasEntry(i) =>
                 \E k \in 1..Len(summary.d["warnings"]) :
                    summary.d["warnings"][k] = plan[i]["id"]

\* C17: every instruction generate_code returns, hence every initial
\* instruction delivered to the executor, contains code, language,
\* reasoning, expected_output and a step_id equal to the id of the step it
\* was generated for; an answer that lacks a field or echoes another step
\* id is not delivered.
C17_InstructionComplete ==
    pc \in {"exec1", "validate1"} =>
        /\ {"code", "language", "reasoning", "expected_output", "step_id"}
              \subseteq DOMAIN code_result
        /\ code_result["step_id"] = CurrentStep["id"]

\* C18: for every oracle answer, well-formed, partial or malformed,
\* debug_code returns a result whose step_id is the id of the step and
\* which contains fixed_code, reasoning and an error_type among syntax,
\* runtime, environment and logic.
C18_DebugResultShape ==
    pc = "debugging" =>
        \A ans \in DebuggerAnswers(CurrentStep["id"]) :
           LET r == debug_code(CurrentStep, last_code, ErrorInfo, ans)
           IN  /\ r.exc = ""
               /\ r.val.kind = "dict"
               /\ {"step_id", "fixed_code", "reasoning", "error_type"}
                     \subseteq DOMAIN r.val.d
               /\ r.val.d["step_id"] = CurrentStep["id"]
               /\ r.val.d["error_type"]
                     \in {"syntax", "runtime", "environment", "logic"}

\* C19: the outcome consumed for an execution request is a message the
\* executor sent after that request was delivered; a message that was
\* already on the connection when the request was issued is never taken as
\* its outcome.
C19_OutcomeAfterRequest ==
    [][(pc \in {"exec1", "exec2"} /\ pc' \in {"validate1", "validate2"})
         => fresh[1]]_vars

\* C20: at most one run is active per connection at any time: a request is
\* read only when the connection has no run, so a request sent during a
\* run waits; and in every interleaving of the runs of different
\* connections, the plan, ledger, cursor and retry count of a run are
\* changed only by steps of its own connection.
C20_RunsIndependent ==
    /\ [](\A c \in Connections :
            /\ conn[c].active \in {0, 1}
            /\ conn[c].active = 1 <=> conn[c].pc # "idle")
    /\ [][\A c \in Connections :
            conn'[c].active > conn[c].active =>
               (conn[c].pc = "idle" /\ conn[c].active = 0)]_vars
    /\ [][\A c \in Connections :
            RunState(conn'[c]) # RunState(conn[c]) => actor' = c]_vars

C20_Witness ==
    /\ conn[1].pc = "exec2" /\ conn[1].current_step_index = 1
    /\ conn[1].retries = 1 /\ conn[1].queue = 1
    /\ conn[2].pc = "validate1" /\ conn[2].current_step_index = 0
    /\ conn[2].plan # conn[1].plan
    /\ actor = 2

\* the text _extract_json works on after its fence stripping
Unfenced(response) == Strip(StripFences(Strip(generate_text(response))))
\* the first balanced brace-delimited substring of t
FirstBalanced(t) ==
    LET u == SubSeq(t, Min(Opens(t)), Len(t))
    IN  SubSeq(u, 1, Min({k \in 1..Len(u) : Depth(u, k) = 0}))
HasFirstBalanced(t) ==
    /\ Opens(t) # {}
    /\ LET u == SubSeq(t, Min(Opens(t)), Len(t))
       IN  \E k \in 1..Len(u) : Depth(u, k) = 0

\* C21: when the fence-stripped text is not JSON as it is and its first
\* balanced brace-delimited substring is a well-formed object, that object
\* is what debug_code parses, whatever prose (braces included) surrounds it.
C21_FirstBalancedObject ==
    (/\ out.fn = "debug_code"
     /\ ~json_loads(Unfenced(text)).ok
     /\ HasFirstBalanced(Unfenced(text))
     /\ IsObject(NoWs(FirstBalanced(Unfenced(text)))))
    => (out.ok /\ out.val = NoWs(FirstBalanced(Unfenced(text))))

\* C22: parsing round trip: a well-formed answer x wrapped in whitespace
\* and fence markers (with or without the word json) and passed through
\* generate_text and the component's parse (generate_code,
\* validate_result) is parsed, and to exactly x.
C22_FenceRoundTrip ==
    \A x \in Objects :
        (out.fn \in {"generate_code", "validate_result"}
         /\ text \in Wrappings(x))
        => (out.ok /\ out.val = x)

\* four dot-separated groups of 1 to 3 digits, each at most 255, and
\* nothing else
IsDottedQuad(t) ==
    LET f == Split(t, ".")
    IN  /\ Len(f) = 4
        /\ \A i \in 1..4 : IsDigits(f[i], 1, 3) /\ DigitsValue(f[i]) <= 255

\* C23: validate_ip_address returns True exactly for the texts that are
\* four dot-separated groups of 1 to 3 decimal digits, each of value 0 to
\* 255, with nothing before or after them, a trailing newline included.
C23_IpExact ==
    out.fn = "validate_ip_address" => (out.ok <=> IsDottedQuad(text))

\* an address, a slash and a prefix of 1 or 2 digits of value at most 32
IsCidr(t) ==
    LET f == Split(t, "/")
    IN  /\ Len(f) = 2
        /\ validate_ip_address(f[1])
        /\ IsDigits(f[2], 1, 2) /\ DigitsValue(f[2]) <= 32

\* C24: validate_cidr_range returns True exactly for the texts of the form
\* address/prefix where validate_ip_address accepts the address and the
\* prefix is a number of 1 or 2 digits between 0 and 32; a text without a
\* prefix, with a prefix above 32 or with an octet out of range gives False.
C24_CidrExact ==
    out.fn = "validate_cidr_range" => (out.ok <=> IsCidr(text))

Awaiting == {"exec1", "exec2"}
Validating == {"validate1", "validate2"}

\* C25: every outcome the engine receives becomes a result with success
\* true and is handed to the validator, which is asked once about it, before
\* any further instruction is generated or the cursor moves: validation is
\* entered from an awaited outcome only, it is left by the validator's
\* verdict only, the outcome does not change in between, and the ledger and
\* the cursor change only in the step that takes the verdict on that
\* outcome.
C25_OutcomeValidatedOnce ==
    [][/\ (pc \in Awaiting /\ pc' # pc)
            => \/ pc' = "closed"
               \/ /\ inbox # <<>>
                  /\ pc' = (IF pc = "exec1" THEN "validate1" ELSE "validate2")
                  /\ user_result' = ("output" :> Head(inbox))
                                    @@ ("success" :> "True")
       /\ (pc' \in Validating /\ pc' # pc) => pc \in Awaiting
       /\ (pc \in Validating /\ pc' = pc) => user_result' = user_result
       /\ (pc \in Validating /\ pc' # pc)
            => /\ \E ans \in ValidatorAnswers : ValidatorReturns(ans)
               /\ pc' \notin Validating
       /\ (pc \notin Validating /\ pc # "idle")
            => /\ step_results' = step_results
               /\ current_step_index' = current_step_index
       /\ (pc \in Validating /\ step_results' # step_results)
            => step_results' = Put(step_results, CurrentStep["id"],
                                   user_result["output"])
      ]_vars

\* a first outcome was validated and written, and the outcome of a repaired
\* instruction of a later step awaits its validation
C25_Witness ==
    /\ pc = "validate2"
    /\ step_results # EmptyDict
    /\ user_result["success"] = "True"

\* C26: a step is recorded as succeeded (its outcome written to the ledger
\* and the cursor advanced) only when the validator's is_valid is the
\* boolean true; no other value there, the string "false" included, makes
\* the step succeed.
C26_OnlyTrueSucceeds ==
    [][(/\ pc \in Validating
        /\ current_step_index' = current_step_index + 1)
       => is_valid' = "true"]_vars

\* C27: the ledger entry written for a step is the raw output of the very
\* outcome the validator was asked about when it accepted the step: the
\* outcome under validation is the message received last, and the step
\* that advances the cursor writes that outcome's output, and nothing else,
\* under the step's id.
C27_LedgerHoldsAcceptedOutcome ==
    [][/\ (pc \in Awaiting /\ pc' \in Validating)
            => /\ inbox # <<>>
               /\ user_result'["output"] = Head(inbox)
       /\ (pc \in Validating /\ current_step_index' # current_step_index)
            => LET id == CurrentStep["id"]
               IN  /\ DOMAIN step_results' = DOMAIN step_results \cup {id}
                   /\ step_results'[id] = user_result["output"]
                   /\ \A k \in DOMAIN step_results \ {id} :
                          step_results'[k] = step_results[k]
      ]_vars

\* a step was accepted on the outcome of a repaired instruction
C27_Witness ==
    /\ pc = "summarizing"
    /\ repairs >= 1
    /\ ~giveUp
    /\ is_valid = "true"
    /\ step_results # EmptyDict

\* C28: a repair attempt is given the instruction delivered in the attempt
\* just before it (the first instruction for the first repair, the previous
\* fix afterwards) together with that attempt's outcome and the validator's
\* reason about that outcome, never those of an older attempt: a failed
\* validation hands over the instruction it was about, the outcome it
\* judged and the reason it gave; they stay as they are until the debugger
\* answers; and the fix is made from exactly them.
C28_RepairContext ==
    [][/\ (pc \in Validating /\ pc' = "debugging")
            => /\ last_code' = (IF pc = "validate1" THEN code_result
                                ELSE fixed_code_result)
               /\ user_result' = user_result
               /\ \E ans \in ValidatorAnswers :
                      LET v == validate_result(CurrentStep, user_result, ans)
                      IN  /\ ~Truthy(v.is_valid)
                          /\ is_valid' = v.is_valid
                          /\ reason' = v.reason
       /\ (pc = "debugging" /\ pc' = pc)
            => /\ last_code' = last_code
               /\ user_result' = user_result
               /\ reason' = reason
       /\ (pc = "debugging" /\ pc' = "exec2")
            => \E ans \in DebuggerAnswers(CurrentStep["id"]) :
                   LET r == debug_code(CurrentStep, last_code,
                                       ("error_message" :> reason)
                                       @@ ("user_output" :> user_result["output"])
                                       @@ ("success" :> user_result["success"]),
                                       ans)
                   IN  /\ r.exc = ""
                       /\ Subscript(r.val, <<"reasoning", "fixed_code",
                                             "language">>) = ""
                       /\ fixed_code_result' =
                              FixedCodeResult(CurrentStep, r.val.d)
      ]_vars

\* the second repair attempt of a step is about to be made, on the first fix
C28_Witness ==
    /\ pc = "debugging"
    /\ retries = 1
    /\ last_code = fixed_code_result
    /\ last_code # code_result

\* repair answers that do not parse as the expected structure, an object:
\* text that is not JSON, and JSON that is not an object
MalformedAnswers == {Prose, JList}

\* C29: when the repair oracle's answer is malformed, debug_code does not
\* raise but returns a pass-through fix (fixed_code, language and
\* expected_output of the last instruction, error_type logic); the engine
\* delivers it to the executor and validates the outcome, and the failed
\* attempt counts as one repair attempt.
C29_MalformedRepairPassThrough ==
    [][/\ pc = "debugging"
            => \A ans \in MalformedAnswers :
                  LET r == debug_code(CurrentStep, last_code, ErrorInfo, ans)
                  IN  /\ r.exc = ""
                      /\ r.val.kind = "dict"
                      /\ r.val.d["fixed_code"] = Get(last_code, "code", "")
                      /\ r.val.d["language"] =
                             Get(last_code, "language", "python")
                      /\ r.val.d["expected_output"] =
                             Get(last_code, "expected_output", "")
                      /\ r.val.d["error_type"] = "logic"
       /\ (pc = "debugging" /\ connected /\ pc' # pc) => pc' = "exec2"
       /\ (pc = "exec2" /\ pc' \notin {pc, "closed"}) => pc' = "validate2"
       /\ (pc = "validate2" /\ pc' = "debugging") => retries' = retries + 1
      ]_vars

\* each step of the plan is begun at most once, in the order of the plan
BegunOnce ==
    /\ \A i \in 1..Len(begun) : begun[i] < Len(plan)
    /\ \A i, j \in 1..Len(begun) : i < j => begun[i] < begun[j]

\* C30: when the oracle answers every request with a well-formed answer and
\* the executor answers every execution request, every run reaches the
\* summary and returns; at most 1 + max_retries execution requests are sent
\* for a step and every step is begun at most once, which makes at most
\* N * (1 + max_retries) requests for a plan of N steps; and once the
\* summary is made the run takes no further step.
C30_Terminates ==
    /\ [](/\ stepExec <= 1 + max_retries
          /\ BegunOnce
          /\ Len(begun) * (1 + max_retries) <= Len(plan) * (1 + max_retries))
    /\ (Running ~> (summarized /\ pc = "idle" /\ received = "report"))
    /\ [][(summarized /\ runs' = runs)
            => UNCHANGED <<pc, engineVars, summary, histVars>>]_vars

\* a run of two steps or more that gave up on a step after all its
\* execution requests has returned its report
C30_Witness ==
    /\ summarized
    /\ pc = "idle"
    /\ giveUp
    /\ stepExec = 1 + max_retries
    /\ Len(begun) >= 2

\* event f may come right after event e in the stream of a run
Follows(e, f) ==
    CASE e.kind = "REQUEST" -> f.kind = "GENERAL"
      [] e.kind \in {"GENERAL", "PLAN"} -> f.kind \in {"PLAN", "EXEC_INIT"}
      [] e.kind \in {"EXEC_INIT", "SUCCESS", "SUCCESS_AFTER_DEBUG"} ->
            f.kind \in {"STEP", "SUMMARY_START"}
      [] e.kind = "STEP" -> f = Ev("REASONING", e.step, 0)
      [] e.kind = "REASONING" -> f = Ev("CODE", e.step, 0)
      [] e.kind = "CODE" -> f = Ev("EXECUTE_CODE_REQUEST", e.step, 0)
      [] e.kind = "EXECUTE_CODE_REQUEST" ->
            IF e.attempt = 0
            THEN f \in {Ev("SUCCESS", e.step, 0), Ev("FAIL", e.step, 0)}
            ELSE f \in {Ev("SUCCESS_AFTER_DEBUG", e.step, e.attempt),
                        Ev("FAIL_ATTEMPT", e.step, e.attempt)}
      [] e.kind = "FAIL" -> f = Ev("DEBUG_ATTEMPT", e.step, 1)
      [] e.kind = "DEBUG_ATTEMPT" ->
            f = Ev("DEBUG_REASONING", e.step, e.attempt)
      [] e.kind = "DEBUG_REASONING" -> f = Ev("DEBUG_CODE", e.step, e.attempt)
      [] e.kind = "DEBUG_CODE" ->
            f = Ev("EXECUTE_CODE_REQUEST", e.step, e.attempt)
      [] e.kind = "FAIL_ATTEMPT" ->
            IF e.attempt < max_retries
            THEN f = Ev("DEBUG_ATTEMPT", e.step, e.attempt + 1)
            ELSE f = Ev("GIVE_UP", e.step, 0)
      [] e.kind = "GIVE_UP" -> f.kind = "SUMMARY_START"
      [] OTHER -> FALSE

\* C31: within a run the events of a step come in the order step-begin,
\* reasoning, code, execution request, then step-succeeded or step-failed;
\* the repair-begin events of a step carry the attempt numbers 1, 2, ...,
\* at most max_retries, in increasing order, each followed by its reasoning,
\* its code and its execution request; the give-up event comes only right
\* after the repair-failed event of attempt max_retries; and no event
\* follows the summary event.
C31_EventOrder ==
    /\ \A i \in 1..(Len(events) - 1) : Follows(events[i], events[i + 1])
    /\ \A i \in 1..Len(events) :
          events[i].kind \in {"DEBUG_ATTEMPT", "FAIL_ATTEMPT"}
             => events[i].attempt \in 1..max_retries

\* the second repair of a step failed, the engine gave up and announced
\* the summary
C31_Witness ==
    /\ pc = "summarizing"
    /\ Len(events) = 4
    /\ events[1].kind = "EXECUTE_CODE_REQUEST"
    /\ events[2].kind = "FAIL_ATTEMPT" /\ events[2].attempt = max_retries
    /\ events[3].kind = "GIVE_UP"
    /\ events[4].kind = "SUMMARY_START"

\* the send of an event raised in this step, for the first time in the run
LostNow == infoLost = "none" /\ infoLost' = "some"

\* C32: when the send of an informational event raises, the run is not
\* ended by it and its plan, ledger, cursor and retry count are what the
\* step makes of them anyway (the ledger and the cursor move only on a
\* valid verdict, the retry count only on an invalid one); when the send of
\* an execution request raises, or the connection is closed while its
\* outcome is awaited, the exception ends the run where it is.
C32_InfoFailureSwallowed ==
    /\ [](crash.at # "info")
    /\ [][(LostNow /\ pc # "idle")
            => /\ pc' = "closed" => crash'.at = "exec_send"
               /\ pc # "planning" => plan' = plan
               /\ IF pc \in Validating /\ Truthy(is_valid')
                  THEN /\ step_results' =
                             LedgerWrite(step_results, CurrentStep, user_result)
                       /\ current_step_index' = current_step_index + 1
                       /\ retries' = retries
                  ELSE /\ pc # "planning"
                          => UNCHANGED <<step_results, current_step_index>>
                       /\ retries' = (IF pc = "validate1" THEN 0
                                      ELSE IF pc = "validate2" THEN retries + 1
                                      ELSE retries)
          ]_vars
    /\ [][(\/ /\ pc = "generating"
              /\ \E ans \in WellFormedInstructions(CurrentStep["id"]) :
                     CoderReturns(ans, TRUE)
           \/ /\ pc = "debugging"
              /\ \E ans \in WellFormedFixes(CurrentStep["id"]) :
                     DebuggerReturns(ans, TRUE)
           \/ ExecutorDisconnected)
            => /\ pc' = "closed"
               /\ crash' = [at |-> (IF pc \in Awaiting THEN pc ELSE "exec_send"),
                            exc |-> "WebSocketDisconnect"]
               /\ ~summarized'
               /\ UNCHANGED <<plan, step_results, current_step_index, retries>>
          ]_vars

\* the send of an event raised, and the run went on to write the ledger
\* and to make its summary
C32_Witness ==
    /\ infoLost = "some"
    /\ ~connected
    /\ summarized
    /\ step_results # EmptyDict

====
